---- MODULE Spec2Model ----
(***************************************************************************)
(* Pairwise ranking engine of dual: the Elo score model (dual/elo.py), the *)
(* round filter and the pair-selection strategies (dual/strategy), and the *)
(* driver that asks for a pair and records the verdict (dual/app,          *)
(* dual/__main__.py).                                                      *)
(*                                                                         *)
(* Scores are fixed-point numbers in hundredths (1000.00 is 100000): the   *)
(* 0.01 step of Bisect.new_score is one unit.  SQL NULL and Python None    *)
(* are the integers NULL and NONE, below every id, score and count.        *)
(***************************************************************************)
EXTENDS Integers, Sequences, FiniteSets, TLC

\* ---------------------------------------------------------------- bounds
\* Largest population of the item store.
MaxItems == 9
\* Largest number of verdicts (update_ratings calls) in one session.
MaxRatings == 5
\* Largest pool of a PoolStrategy, and the most verdicts given to one.
MaxPool == 4
MaxPoolRatings == 2
\* Ids of the items given to a filter on its own, and the most insertions.
FilterIds == 4
MaxAdds == 4
\* Most new_score calls made in a row on one pair of scores.
MaxUpdates == 2
\* Size of the pool of a PoolStrategy driven by the app, and the most
\* verdicts given to it.
PoolItems == 6
MaxPoolVerdicts == 5
\* SweepLosing: the largest small store and the most verdicts given on one;
\* the size of the large store, and the most verdicts given on it once 11
\* of its items have lost.
SweepSmall == 3
MaxSweepRatings == 4
SweepItems == 12
MaxSweepLate == 1

\* ------------------------------------------------------- null and values
\* Python None for an item reference (ids start at 1).
NONE == 0
\* SQL NULL of a score or rating_count column; sorts below every value.
NULL == -1

WIN == "win"
LOSE == "lose"
DRAW == "draw"
UserResponse == {WIN, LOSE, DRAW}

\* float(UserResponse), in hundredths.
ResponseFloat(r) == IF r = WIN THEN 100 ELSE IF r = LOSE THEN 0 ELSE 50

Max(a, b) == IF a >= b THEN a ELSE b
Min(a, b) == IF a <= b THEN a ELSE b

\* ------------------------------------------------------------ Score Model
\* Thresh[j] is the least score difference d (hundredths) at which
\* 1 / (1 + 10 ** (-d/100)), rounded to hundredths, is at least j/100.
Thresh ==
  << -229, -181, -159, -144, -132, -123, -115, -109, -103, -97,
     -93, -88, -84, -80, -77, -73, -70, -67, -64, -61,
     -58, -56, -53, -51, -48, -46, -44, -42, -39, -37,
     -35, -33, -31, -29, -27, -25, -24, -22, -20, -18,
     -16, -14, -13, -11, -9, -7, -6, -4, -2, 0,
     1, 3, 5, 7, 8, 10, 12, 14, 15, 17,
     19, 21, 23, 25, 26, 28, 30, 32, 34, 36,
     38, 40, 43, 45, 47, 49, 52, 54, 57, 59,
     62, 65, 68, 71, 74, 78, 81, 85, 89, 94,
     98, 104, 110, 116, 124, 133, 145, 160, 182, 230 >>

\* A faulty predict: the comparison with the thresholds is strict.
predict_strict(a, b, k) == Cardinality({j \in 1..100 : Thresh[j] * k < a - b})

\* predict(a, b, k) = 1 / (1 + 10 ** ((b - a) / k)), in hundredths.
predict(a, b, k) == Cardinality({j \in 1..100 : Thresh[j] * k <= a - b})

\* Python truthiness of a score: None and 0.0 are falsy.
Falsy(x) == x = NULL \/ x = 0

\* 10 ** ((b - a) / k) is above the largest float (about 10 ** 308.2547),
\* where Python's float power raises OverflowError; a and b in hundredths.
PowOverflows(a, b, k) == 100 * (b - a) > 3082547 * k

\* elo.new_score(a, b, score, k): what it raised ("none" if it returned) and
\* the pair <<a + delta, b - delta>> it returns.
elo_new_score(a, b, outcome, k) ==
  LET k1 == IF Falsy(a) \/ Falsy(b) THEN 2 ELSE k
      a1 == IF ~Falsy(a) THEN a ELSE IF ~Falsy(b) THEN b ELSE 100000
      b1 == IF ~Falsy(b) THEN b ELSE a1
      expected == predict(a1, b1, k1)
      delta == k1 * (outcome - expected)
  IN  IF PowOverflows(a1, b1, k1)
        THEN [raised |-> "OverflowError", new |-> << a, b >>]
        ELSE [raised |-> "none", new |-> << a1 + delta, b1 - delta >>]

\* ----------------------------------------------------------- Round Filter
\* RoundFilter.__init__: BloomFilter(int(87e3), 30).
RoundFilterSize == 87000
RoundFilterHashes == 30

\* A faulty RoundFilter._as_string: the ids joined in the order given.
AsString_as_given(ta, tb) == << ta, tb >>

\* RoundFilter._as_string: the two ids sorted, then joined.
AsString(ta, tb) == << Min(ta, tb), Max(ta, tb) >>

\* The j-th hash of a key, an index into the bit array of m bits.
BloomHash(j, key, m) == ((key[1] * 31 + key[2]) * (2 * j + 1) + j * j) % m

\* The bits a key maps to under k hash functions.
BloomBits(key, m, k) == {BloomHash(j, key, m) : j \in 1..k}

\* BloomFilter.add: set the key's bits.
BloomAdd(bits, key, m, k) == bits \cup BloomBits(key, m, k)

\* BloomFilter.possibly_contains: all of the key's bits are set.
BloomContains(bits, key, m, k) == BloomBits(key, m, k) \subseteq bits

\* A faulty RoundFilter.add: the key is built without sorting the ids.
RoundFilter_add_unsorted(bits, ta, tb, m, k) == BloomAdd(bits, << ta, tb >>, m, k)

\* RoundFilter.add((ta, tb)) on a filter of m bits and k hashes.
RoundFilter_add(bits, ta, tb, m, k) == BloomAdd(bits, AsString(ta, tb), m, k)

\* RoundFilter.possibly_contains((ta, tb)).
RoundFilter_possibly_contains(bits, ta, tb, m, k) ==
  BloomContains(bits, AsString(ta, tb), m, k)

\* ------------------------------------------------------------------ state
VARIABLES
  ids,            \* item store: ids of the items refine_query lets through
  score,          \* item store: SCORE attribute of each item (NULL if unset)
  rating_count,   \* item store: RATING_COUNT attribute (NULL if unset)
  recent,         \* item store: ids whose LAST_RATED_AT is inside the window
                  \* of tracks(not_rated_in_last=...)
  strategy,       \* class of the strategy object: "Bisect", "PoolStrategy",
                  \* "TopRated" or "SweepLosing"
  top,            \* App.top
  span,           \* Bisect.span = <<lo, hi>>
  track,          \* Bisect.track (id of the pivot, NONE if None)
  win_counts,     \* KeepWinner.win_counts (0 where the dict has no key)
  loss_counts,    \* KeepWinner.loss_counts
  win_streak,     \* KeepWinner.win_streak
  loss_streak,    \* KeepWinner.loss_streak
  winners,        \* TrackResultsStrategy.winners
  losers,         \* TrackResultsStrategy.losers
  loser_counts,   \* SweepLosing.loser_counts (0 where the dict has no key)
  rounds,         \* RoundFilter: the set bits of the bit array
  fsize,          \* BloomFilter size (number of bits)
  fhashes,        \* BloomFilter hash count
  pool,           \* PoolStrategy.pool
  app_wins,       \* App._wins
  app_winner,     \* App._winner (id, NONE if None)
  status,         \* where the session is: "constructed", "shown", "rated",
                  \* "ended" (no pair: end of session), "crashed", "filter"
  shown,          \* the pair the last next_pair returned, <<>> if none
  err,            \* exception that escaped, "none" if none
  errAt,          \* operation the exception escaped from
  hist            \* history of the session, read only by the properties

vars == << ids, score, rating_count, recent, strategy, top, span, track,
           win_counts, loss_counts, win_streak, loss_streak, winners, losers,
           loser_counts, rounds, fsize, fhashes, pool, app_wins, app_winner,
           status, shown, err, errAt, hist >>

\* The program state as one record, so that an operation is a function on it.
St ==
  [ ids |-> ids, score |-> score, rating_count |-> rating_count,
    recent |-> recent, loser_counts |-> loser_counts,
    strategy |-> strategy, top |-> top, span |-> span, track |-> track,
    win_counts |-> win_counts, loss_counts |-> loss_counts,
    win_streak |-> win_streak, loss_streak |-> loss_streak,
    winners |-> winners, losers |-> losers, rounds |-> rounds,
    fsize |-> fsize, fhashes |-> fhashes, pool |-> pool,
    app_wins |-> app_wins, app_winner |-> app_winner ]

\* The variables take the fields of record s.
Becomes(s) ==
  /\ ids' = s.ids /\ score' = s.score /\ rating_count' = s.rating_count
  /\ recent' = s.recent /\ loser_counts' = s.loser_counts
  /\ strategy' = s.strategy /\ top' = s.top /\ span' = s.span
  /\ track' = s.track /\ win_counts' = s.win_counts
  /\ loss_counts' = s.loss_counts /\ win_streak' = s.win_streak
  /\ loss_streak' = s.loss_streak /\ winners' = s.winners
  /\ losers' = s.losers /\ rounds' = s.rounds /\ fsize' = s.fsize
  /\ fhashes' = s.fhashes /\ pool' = s.pool /\ app_wins' = s.app_wins
  /\ app_winner' = s.app_winner

\* -------------------------------------------------------------- item store
\* The rows a query may return at OFFSET index when the rows S are ordered by
\* key descending: rows with equal keys come in an order SQL leaves open.  A
\* negative OFFSET is taken as 0 by SQLite.  Empty if there is no such row.
AtOffsetDesc(S, key, index) ==
  LET i == IF index < 0 THEN 0 ELSE index
  IN  {x \in S : /\ Cardinality({y \in S : key[y] > key[x]}) <= i
                 /\ i < Cardinality({y \in S : key[y] >= key[x]})}

\* The rows that may come first when S is ordered by key ascending.
FirstAsc(S, key) == {x \in S : \A y \in S : key[x] <= key[y]}

\* peewee .first() on the candidate rows: one of them, or None.
First(candidates) == IF candidates = {} THEN {NONE} ELSE candidates

\* Item.update_score: the score is written as text and read back through
\* CAST(value AS REAL) (the text 'None' reads back as 0.0), and rating_count
\* becomes rating_count() + 1, where an unset count is 0; LAST_RATED_AT
\* becomes the time of the call.
update_score(s, id, newScore) ==
  [s EXCEPT !.score[id] = IF newScore = NULL THEN 0 ELSE newScore,
            !.recent = s.recent \cup {id},
            !.rating_count[id] =
               (IF s.rating_count[id] = NULL THEN 0 ELSE s.rating_count[id]) + 1]

\* ------------------------------------------------------------------ Bisect
\* Bisect._disqualified: ids whose loss count is at least win count + 2.
Disqualified(s) == {k \in s.ids : s.loss_counts[k] >= s.win_counts[k] + 2}

\* Bisect.ranking_query: scored items that are not disqualified (ordered by
\* score descending where it is read).
Bisect_ranking_query(s) ==
  {i \in s.ids : s.score[i] # NULL /\ i \notin Disqualified(s)}

\* Bisect.source_query: items that are not disqualified.
Bisect_source_query(s) == {i \in s.ids : i \notin Disqualified(s)}

\* Bisect.midpoint.
midpoint(sp) == (sp[1] + sp[2]) \div 2

\* Bisect.get_at_index: the values the call may return (NONE for None).
get_at_index(s, index) ==
  First(AtOffsetDesc(Bisect_ranking_query(s) \ {s.track}, s.score, index))

\* A faulty Bisect.reset_track: it also starts the win and loss counts anew.
reset_track_clears_counts(s) ==
  LET sp == << 0, Cardinality(Bisect_ranking_query(s)) >>
      q == Bisect_source_query(s)
      cands == IF ~s.top THEN First(FirstAsc(q, s.rating_count))
               ELSE First(AtOffsetDesc(q, s.score, midpoint(sp)))
  IN  {[s |-> [s EXCEPT !.span = sp, !.track = t,
                        !.win_counts = [i \in s.ids |-> 0],
                        !.loss_counts = [i \in s.ids |-> 0]],
        raised |-> (t = NONE)] : t \in cands}

\* A faulty Bisect.reset_track: it also starts a new RoundFilter and a new
\* winners set.
reset_track_new_rounds(s) ==
  LET sp == << 0, Cardinality(Bisect_ranking_query(s)) >>
      q == Bisect_source_query(s)
      cands == IF ~s.top THEN First(FirstAsc(q, s.rating_count))
               ELSE First(AtOffsetDesc(q, s.score, midpoint(sp)))
  IN  {[s |-> [s EXCEPT !.span = sp, !.track = t, !.rounds = {},
                        !.winners = {}],
        raised |-> (t = NONE)] : t \in cands}

\* Bisect.reset_track: the states it may leave, each with the flag raised
\* (self.track is None when the source query is empty, and reading
\* self.track.title then raises AttributeError).
reset_track(s) ==
  LET sp == << 0, Cardinality(Bisect_ranking_query(s)) >>
      q == Bisect_source_query(s)
      cands == IF ~s.top THEN First(FirstAsc(q, s.rating_count))
               ELSE First(AtOffsetDesc(q, s.score, midpoint(sp)))
  IN  {[s |-> [s EXCEPT !.span = sp, !.track = t], raised |-> (t = NONE)] :
         t \in cands}

\* Bisect.new_score: what it raised and <<song1's new score, song2's new
\* score>>.  elo.new_score is called first, for every response; then max()
\* or + meets None (TypeError) when a score is unset.
Bisect_new_score(s1, s2, response) ==
  LET parent == elo_new_score(s1, s2, ResponseFloat(response), 1)
  IN  IF parent.raised # "none" THEN parent
      ELSE IF response = DRAW THEN [raised |-> "none", new |-> << s1, s2 >>]
      ELSE IF s1 = NULL \/ s2 = NULL
        THEN [raised |-> "TypeError", new |-> << s1, s2 >>]
      ELSE IF response = WIN
        THEN [raised |-> "none", new |-> << Max(s1, s2 + 1), parent.new[2] >>]
        ELSE [raised |-> "none", new |-> << parent.new[1], Max(s1, s2 + 1) >>]

\* Strategy.new_score: the Score Model with its default k = 2.
Strategy_new_score(s1, s2, response) ==
  elo_new_score(s1, s2, ResponseFloat(response), 2)

\* A faulty TrackResultsStrategy.register_rating that records the winner and
\* the loser but does not add the round to the Round Filter.
TrackResults_register_rating_forgets_round(s, winner, loser) ==
  [s EXCEPT !.winners = s.winners \cup {winner},
            !.losers = s.losers \cup {loser}]

\* TrackResultsStrategy.register_rating.
TrackResults_register_rating(s, winner, loser) ==
  [s EXCEPT !.rounds = RoundFilter_add(s.rounds, winner, loser, s.fsize, s.fhashes),
            !.winners = s.winners \cup {winner},
            !.losers = s.losers \cup {loser}]

\* A faulty KeepWinner.register_rating that counts the win but not the loss.
KeepWinner_register_rating_counts_wins_only(s, winner, loser) ==
  TrackResults_register_rating(
    [s EXCEPT !.win_counts[winner] = s.win_counts[winner] + 1,
              !.win_streak = IF winner \in s.winners THEN s.win_streak + 1 ELSE 1,
              !.loss_streak = IF loser \in s.losers THEN s.loss_streak + 1 ELSE 1],
    winner, loser)

\* KeepWinner.register_rating.
KeepWinner_register_rating(s, winner, loser) ==
  TrackResults_register_rating(
    [s EXCEPT !.win_counts[winner] = s.win_counts[winner] + 1,
              !.win_streak = IF winner \in s.winners THEN s.win_streak + 1 ELSE 1,
              !.loss_counts[loser] = s.loss_counts[loser] + 1,
              !.loss_streak = IF loser \in s.losers THEN s.loss_streak + 1 ELSE 1],
    winner, loser)

\* A faulty span update: a lost round does not retreat the span.
NarrowSpan_no_retreat(sp, pivotWon, draw) ==
  IF draw \/ ~pivotWon THEN sp ELSE << sp[1], midpoint(sp) >>

\* The span Bisect.register_rating leaves.
NarrowSpan(sp, pivotWon, draw) ==
  IF draw THEN sp
  ELSE IF pivotWon THEN << sp[1], midpoint(sp) >>
  ELSE << midpoint(sp), sp[2] >>

\* A faulty Bisect.register_rating: the draw flag is not read.
Bisect_register_rating_ignores_draw(s, winner, loser, draw) ==
  KeepWinner_register_rating(
    [s EXCEPT !.span = NarrowSpan(s.span, winner = s.track, FALSE)],
    winner, loser)

\* Bisect.register_rating.
Bisect_register_rating(s, winner, loser, draw) ==
  KeepWinner_register_rating(
    [s EXCEPT !.span = NarrowSpan(s.span, winner = s.track, draw)],
    winner, loser)

\* An outcome of next_pair: the state it leaves, the pair it returns (<<>> for
\* the no-pair signal (None, None); SweepLosing, branch "sweep", never gives
\* that signal, and <<>> is its empty tuple), what it raised ("none" if it returned),
\* the branch that produced the result, whether reset_track ran, the
\* pivot that get_at_index left out of the ranking, and the value of the
\* local use_pool of SweepLosing.next_pair.
Outcome(s, res, raised, branch) ==
  [s |-> s, res |-> res, raised |-> raised, branch |-> branch, reset |-> FALSE,
   excluded |-> s.track, use_pool |-> FALSE]

\* A faulty terminal step: the filter is not asked, the pair is returned.
Bisect_terminal_unfiltered(s) ==
  {LET s1 == [s EXCEPT !.track = a]
       o == IF a = NONE \/ b = NONE
              THEN Outcome(s1, <<>>, "AttributeError", "terminal")
            ELSE Outcome(s1, << a, b >>, "none", "terminal")
   IN  [o EXCEPT !.excluded = s.track] :
     a \in get_at_index(s, s.span[1]), b \in get_at_index(s, s.span[2])}

\* Bisect.next_pair, `if self.span[0] == self.span[1] - 2`: the two reads
\* are made before self.track is assigned; the filter lookup reads .id of
\* both and raises AttributeError on None.
Bisect_terminal(s) ==
  {LET s1 == [s EXCEPT !.track = a]
       o == IF a = NONE \/ b = NONE
              THEN Outcome(s1, <<>>, "AttributeError", "terminal")
            ELSE IF RoundFilter_possibly_contains(s.rounds, a, b, s.fsize, s.fhashes)
              THEN Outcome(s1, <<>>, "none", "terminal")
            ELSE Outcome(s1, << a, b >>, "none", "terminal")
   IN  [o EXCEPT !.excluded = s.track] :
     a \in get_at_index(s, s.span[1]), b \in get_at_index(s, s.span[2])}

\* A faulty loop: the challenger at idx is taken without asking the filter.
Bisect_walk_unfiltered(s, idx, branch) ==
  {IF t = NONE THEN Outcome(s, <<>>, "AttributeError", branch)
   ELSE Outcome(s, << s.track, t >>, "none", branch) :
     t \in get_at_index(s, idx)}

\* The while loop of Bisect.next_pair from index idx downwards.  Below 0 the
\* query reads offset 0 again, so a shown pair there is met on every later
\* iteration: the loop does not end.
RECURSIVE Bisect_walk(_, _, _)
Bisect_walk(s, idx, branch) ==
  UNION {
    IF t = NONE THEN {Outcome(s, <<>>, "AttributeError", branch)}
    ELSE IF RoundFilter_possibly_contains(s.rounds, s.track, t, s.fsize, s.fhashes)
      THEN IF idx < 0 THEN {Outcome(s, <<>>, "NonTermination", branch)}
           ELSE Bisect_walk(s, idx - 1, branch)
    ELSE {Outcome(s, << s.track, t >>, "none", branch)} :
    t \in get_at_index(s, idx)}

\* The outcomes O, marked as reached through a reset_track.
AfterReset(O) == {[o EXCEPT !.reset = TRUE] : o \in O}

\* A faulty final else branch: a pivot with two losses is kept.
Bisect_bisect_keeps_pivot(s) == Bisect_walk(s, midpoint(s.span), "bisect")

\* A faulty final else branch: reset_track runs whatever the pivot lost.
Bisect_bisect_always_resets(s) ==
  AfterReset(UNION {
    IF r.raised THEN {Outcome(r.s, <<>>, "AttributeError", "bisect")}
    ELSE Bisect_walk(r.s, midpoint(r.s.span), "bisect") :
    r \in reset_track(s)})

\* Bisect.next_pair, the final else branch: reset or refresh the pivot, then
\* take the challenger at the midpoint and walk down past shown pairs.
Bisect_bisect(s) ==
  IF s.loss_counts[s.track] >= 2
    THEN AfterReset(UNION {
           IF r.raised THEN {Outcome(r.s, <<>>, "AttributeError", "bisect")}
           ELSE Bisect_walk(r.s, midpoint(r.s.span), "bisect") :
           r \in reset_track(s)})
    ELSE Bisect_walk(s, midpoint(s.span), "bisect")

\* Bisect.next_pair on a span that is not collapsed.
Bisect_open(s) ==
  IF s.span[1] = s.span[2] - 2 THEN Bisect_terminal(s) ELSE Bisect_bisect(s)

\* A faulty Bisect.next_pair that takes only an empty span for collapsed: a
\* span of width 1 is bisected like a wide one.
Bisect_next_pair_bisects_width_one(s) ==
  IF s.span[1] # s.span[2] - 2 /\ s.span[2] - s.span[1] <= 0
    THEN AfterReset(UNION {
           IF r.raised THEN {Outcome(r.s, <<>>, "AttributeError", "collapsed")}
           ELSE IF r.s.span[2] - r.s.span[1] <= 1
             THEN {Outcome(r.s, <<>>, "RecursionError", "collapsed")}
           ELSE Bisect_open(r.s) :
           r \in reset_track(s)})
    ELSE Bisect_open(s)

\* Bisect.next_pair: its possible outcomes.  On a collapsed span it resets
\* and calls itself; when the reset span is collapsed too, every further call
\* resets to the same span, and the recursion ends in RecursionError.
Bisect_next_pair(s) ==
  IF s.span[1] # s.span[2] - 2 /\ s.span[2] - s.span[1] <= 1
    THEN AfterReset(UNION {
           IF r.raised THEN {Outcome(r.s, <<>>, "AttributeError", "collapsed")}
           ELSE IF r.s.span[2] - r.s.span[1] <= 1
             THEN {Outcome(r.s, <<>>, "RecursionError", "collapsed")}
           ELSE Bisect_open(r.s) :
           r \in reset_track(s)})
    ELSE Bisect_open(s)

\* ------------------------------------------------------------ PoolStrategy
\* KeepWinner.winner: the app's winner while the win streak is below 3.
KeepWinner_winner(s) == IF s.win_streak < 3 THEN s.app_winner ELSE NONE

\* The rows of tracks(not_rated_in_last=None) restricted to the pool: items
\* with a score between 0 and 999999, in random order.
Pool_tracks(s) ==
  {i \in s.pool \cap s.ids : s.score[i] # NULL /\ s.score[i] >= 0
                             /\ s.score[i] <= 99999900}

\* The rows the loop of PoolStrategy.next_pair does not skip.
Pool_unsaturated(s) ==
  {i \in Pool_tracks(s) : s.win_counts[i] < 3 /\ s.loss_counts[i] < 3}

\* The result of the loop of PoolStrategy.next_pair once its winner is w:
\* the first unsaturated row that is not w and not shown with w, which in a
\* random order may be any such row; (None, None) if there is none.
Pool_pair_with(s, w) ==
  LET ts == {t \in Pool_unsaturated(s) \ {w} :
               ~RoundFilter_possibly_contains(s.rounds, w, t, s.fsize, s.fhashes)}
  IN  IF ts = {} THEN {Outcome(s, <<>>, "none", "pool")}
      ELSE {Outcome(s, << w, t >>, "none", "pool") : t \in ts}

\* PoolStrategy.next_pair: the kept winner, or else the first unsaturated
\* row, is paired with a later row.
PoolStrategy_next_pair(s) ==
  IF KeepWinner_winner(s) # NONE THEN Pool_pair_with(s, KeepWinner_winner(s))
  ELSE IF Pool_unsaturated(s) = {} THEN {Outcome(s, <<>>, "none", "pool")}
  ELSE UNION {Pool_pair_with(s, w) : w \in Pool_unsaturated(s)}

\* ------------------------------------------------- TopRated, SweepLosing
\* The rows of tracks(): items with a score between 0 and 999999 and, when
\* not_rated_in_last is given, a last_rated_at that is NULL or older.
tracks(s, windowed) ==
  {i \in s.ids : /\ s.score[i] # NULL /\ s.score[i] >= 0
                 /\ s.score[i] <= 99999900
                 /\ windowed => i \notin s.recent}

\* The sets of rows a query may keep under ORDER BY key DESC LIMIT limit.
TopRows(S, key, limit) ==
  IF Cardinality(S) <= limit THEN {S}
  ELSE {T \in SUBSET S : /\ Cardinality(T) = limit
                         /\ \A x \in T, y \in S \ T : key[x] >= key[y]}

\* The ordered pairs of two different rows: sample(rows, 2), or the two rows
\* of a query with LIMIT 2 in random order.
TwoOf(rows) == {pr \in rows \X rows : pr[1] # pr[2]}

\* A faulty TopRated.next_pair: the winners are not left out of the query.
TopRated_next_pair_with_winners(s) ==
  UNION {
    IF Cardinality(rows) < 2 THEN {Outcome(s, <<>>, "ValueError", "top")}
    ELSE {Outcome(s, pr, "none", "top") : pr \in TwoOf(rows)} :
    rows \in TopRows(tracks(s, TRUE), s.score, 30)}

\* TopRated.next_pair: two of the 30 best rows that never won; sample()
\* raises ValueError when there are fewer than two.
TopRated_next_pair(s) ==
  UNION {
    IF Cardinality(rows) < 2 THEN {Outcome(s, <<>>, "ValueError", "top")}
    ELSE {Outcome(s, pr, "none", "top") : pr \in TwoOf(rows)} :
    rows \in TopRows(tracks(s, TRUE) \ s.winners, s.score, 30)}

\* SweepLosing.register_rating.
SweepLosing_register_rating(s, winner, loser) ==
  LET s1 == TrackResults_register_rating(s, winner, loser)
  IN  IF s1.loser_counts[loser] >= 3
        THEN [s1 EXCEPT !.winners = s1.winners \ {loser},
                        !.losers = s1.losers \ {loser},
                        !.loser_counts[loser] = 0]
        ELSE [s1 EXCEPT !.loser_counts[loser] = s1.loser_counts[loser] + 1]

\* SweepLosing.next_pair: tuple() of the rows of a query with LIMIT 2, from
\* the losers that never won when there are more than 10 of them.
SweepLosing_next_pair(s) ==
  LET pool_ == s.losers \ s.winners
      use_pool == Cardinality(pool_) > 10
      rows == IF use_pool THEN tracks(s, FALSE) \cap pool_
              ELSE tracks(s, TRUE)
      Result(res) == [Outcome(s, res, "none", "sweep") EXCEPT !.use_pool = use_pool]
  IN  IF Cardinality(rows) >= 2 THEN {Result(pr) : pr \in TwoOf(rows)}
      ELSE IF rows = {} THEN {Result(<<>>)}
      ELSE {Result(<< x >>) : x \in rows}

\* --------------------------------------------------------------------- App
\* App.max_consecutive_wins.
max_consecutive_wins == 5

\* A faulty App.winner setter that clears the streak only above the maximum.
App_set_winner_clears_above_max(s, t) ==
  IF s.app_winner # NONE /\ t = s.app_winner
    THEN IF s.app_wins > max_consecutive_wins
           THEN [s EXCEPT !.app_wins = 0, !.app_winner = NONE]
           ELSE [s EXCEPT !.app_wins = s.app_wins + 1]
    ELSE [s EXCEPT !.app_wins = 1, !.app_winner = t]

\* App.winner setter, for a track that is not None.
App_set_winner(s, t) ==
  IF s.app_winner # NONE /\ t = s.app_winner
    THEN IF s.app_wins >= max_consecutive_wins
           THEN [s EXCEPT !.app_wins = 0, !.app_winner = NONE]
           ELSE [s EXCEPT !.app_wins = s.app_wins + 1]
    ELSE [s EXCEPT !.app_wins = 1, !.app_winner = t]

\* strategy.new_score, strategy.register_rating and strategy.next_pair of the
\* strategy object the app holds.
strategy_new_score(s, song1, song2, response) ==
  IF s.strategy = "Bisect"
    THEN Bisect_new_score(s.score[song1], s.score[song2], response)
    ELSE Strategy_new_score(s.score[song1], s.score[song2], response)

strategy_register_rating(s, winner, loser, draw) ==
  IF s.strategy = "Bisect" THEN Bisect_register_rating(s, winner, loser, draw)
  ELSE IF s.strategy = "PoolStrategy"
    THEN KeepWinner_register_rating(s, winner, loser)
  ELSE IF s.strategy = "SweepLosing"
    THEN SweepLosing_register_rating(s, winner, loser)
  ELSE TrackResults_register_rating(s, winner, loser)

strategy_next_pair(s) ==
  IF s.strategy = "Bisect" THEN Bisect_next_pair(s)
  ELSE IF s.strategy = "PoolStrategy" THEN PoolStrategy_next_pair(s)
  ELSE IF s.strategy = "SweepLosing" THEN SweepLosing_next_pair(s)
  ELSE TopRated_next_pair(s)

\* The two update_score calls of App.update_ratings.
Persist(s, song1, song2, new) ==
  update_score(update_score(s, song1, new[1]), song2, new[2])

\* What update_ratings leaves: the state, what it raised, and the
\* register_rating calls it made, as <<winner, loser, draw>> each.
Rated(s, raised, calls) == [s |-> s, raised |-> raised, calls |-> calls]

\* App.update_ratings(song1, song2, user_response) for a user_response of
\* the enum: new scores, persisted, then the winner and register_rating in
\* the branch of the response.  The last branch tests `user_response is
\* None`, which no member of the enum satisfies.
App_update_ratings(s, song1, song2, user_response) ==
  LET ns == strategy_new_score(s, song1, song2, user_response)
      s1 == Persist(s, song1, song2, ns.new)
  IN  IF ns.raised # "none" THEN Rated(s, ns.raised, << >>)
      ELSE IF user_response = WIN
        THEN Rated(strategy_register_rating(App_set_winner(s1, song1),
                                            song1, song2, FALSE),
                   "none", << << song1, song2, FALSE >> >>)
      ELSE IF user_response = LOSE
        THEN Rated(strategy_register_rating(App_set_winner(s1, song2),
                                            song2, song1, FALSE),
                   "none", << << song2, song1, FALSE >> >>)
      ELSE Rated(s1, "none", << >>)

\* A driver that keeps the contract of Strategy.register_rating(winner,
\* loser, draw): as App.update_ratings, and a draw is registered with
\* draw=True as the last branch of update_ratings writes it.
Contract_update_ratings(s, song1, song2, user_response) ==
  LET ns == strategy_new_score(s, song1, song2, user_response)
      s1 == Persist(s, song1, song2, ns.new)
  IN  IF user_response # DRAW THEN App_update_ratings(s, song1, song2, user_response)
      ELSE IF ns.raised # "none" THEN Rated(s, ns.raised, << >>)
      ELSE Rated(strategy_register_rating(s1, song1, song2, TRUE),
                 "none", << << song1, song2, TRUE >> >>)

\* ---------------------------------------------------------------- history
Width(sp) == sp[2] - sp[1]

\* The history before the first call.
Hist0(sp) ==
  [ prevShown |-> << >>,     \* the pair returned before the one in `shown`
    asked |-> 0,             \* next_pair calls that returned a pair
    lastKey |-> "",          \* key of the last unhandled_input
    calls |-> << >>,         \* register_rating calls of the last verdict
    lastCall |-> << >>,      \* the last register_rating call of the session
    prevCall |-> << >>,      \* the register_rating call before the last
    preStreaks |-> << 0, 0 >>,   \* <<win_streak, loss_streak>> before the last
    postStreaks |-> << 0, 0 >>,  \*   register_rating call and after it
    verdict |-> "",          \* the last verdict
    nRatings |-> 0,          \* verdicts so far
    nReg |-> 0,              \* register_rating calls so far
    draws |-> FALSE,         \* some verdict so far was a draw
    cases |-> {},            \* kinds of register_rating calls so far
    preSpan |-> sp,          \* span and pivot when register_rating was last
    prePivot |-> NONE,       \*   called, and the span it left
    postSpan |-> sp,
    prevRoundWidth |-> Width(sp),  \* span width after the round before the last
    roundWidth |-> Width(sp),      \* span width after the last round
    reached |-> Width(sp) <= 2,    \* some round so far left a width of 1 or 2
    reachedPrev |-> Width(sp) <= 2,  \* the same, before the last round
    population |-> sp[2],    \* size n of the span at construction
    branch |-> "",           \* branch of the last next_pair
    reset |-> FALSE,         \* the last next_pair ran reset_track
    excluded |-> NONE,       \* the pivot its get_at_index calls left out
    sinceReset |-> 0,        \* non-draw register_rating calls since the last
    resetN |-> sp[2],        \*   reset_track, and the size of the span it set
    roundSince |-> 0,        \* sinceReset and resetN when register_rating
    roundN |-> sp[2],        \*   last returned
    added |-> {},            \* pairs given to RoundFilter.add, as given
    assigned |-> NONE,       \* the item last assigned to App.winner
    preWins |-> 0,           \* _wins before that assignment
    preWinner |-> NONE,      \* _winner before that assignment
    everWon |-> {},          \* ids that were the winner of a register_rating
    lostN |-> << >>,         \* times each id was the loser of a register_rating
    nextPairs |-> 0,         \* next_pair calls so far (2 for 2 or more)
    poolSize |-> 0,          \* len(losers - winners) at the last next_pair,
    use_pool |-> FALSE,      \*   its use_pool, and the use_pool of the
    prevUsePool |-> FALSE,   \*   next_pair before it
    fn |-> "",               \* the last new_score called on its own: "elo",
    k |-> 0,                 \*   "Strategy" or "Bisect", its k, its response,
    outcome |-> "",          \*   the scores it was given, the scores it
    old |-> << >>,           \*   returned and what it raised
    new |-> << >>,
    raised |-> "none" ]

\* The number of register_rating calls of history h with loser x.
TimesLost(h, x) == IF x \in DOMAIN h.lostN THEN h.lostN[x] ELSE 0

\* The history after update_ratings took state s to r.s with the verdict.
HistRated(h, s, r, user_response) ==
  LET h1 == [h EXCEPT !.calls = r.calls, !.verdict = user_response,
                      !.nRatings = h.nRatings + 1,
                      !.draws = h.draws \/ user_response = DRAW]
  IN  IF r.calls = << >> THEN h1
      ELSE LET c == r.calls[1]
               since == IF c[3] THEN h.sinceReset ELSE h.sinceReset + 1
           IN  [h1 EXCEPT
                  !.nReg = h.nReg + 1, !.lastCall = c,
                  !.prevCall = h.lastCall,
                  !.preStreaks = << s.win_streak, s.loss_streak >>,
                  !.postStreaks = << r.s.win_streak, r.s.loss_streak >>,
                  !.cases = h.cases \cup {IF c[3] THEN "draw"
                                          ELSE IF c[1] = s.track THEN "won"
                                          ELSE "lost"},
                  !.preSpan = s.span, !.prePivot = s.track,
                  !.postSpan = r.s.span,
                  !.prevRoundWidth = h.roundWidth,
                  !.roundWidth = Width(r.s.span),
                  !.reached = h.reached \/ Width(r.s.span) <= 2,
                  !.reachedPrev = h.reached,
                  !.sinceReset = since,
                  !.roundSince = since, !.roundN = h.resetN,
                  !.added = h.added \cup {<< c[1], c[2] >>},
                  !.everWon = h.everWon \cup {c[1]},
                  !.lostN = (c[2] :> (TimesLost(h, c[2]) + 1)) @@ h.lostN]

\* The history after next_pair ended with outcome o; was is the pair shown
\* before the call.
HistAsked(h, o, was) ==
  [h EXCEPT !.prevShown = IF o.res # << >> THEN was ELSE h.prevShown,
            !.asked = IF o.res # << >> THEN Min(h.asked + 1, 2) ELSE h.asked,
            !.branch = o.branch, !.reset = o.reset, !.excluded = o.excluded,
            !.nextPairs = Min(h.nextPairs + 1, 2),
            !.poolSize = Cardinality(o.s.losers \ o.s.winners),
            !.use_pool = o.use_pool, !.prevUsePool = h.use_pool,
            !.sinceReset = IF o.reset THEN 0 ELSE h.sinceReset,
            !.resetN = IF o.reset THEN o.s.span[2] ELSE h.resetN]

\* ------------------------------------------------------------- construction
\* Scores of the store at the start: distinct, 0.40 apart.
InitScore(i) == 100000 - 40 * i

\* KeepWinner.__init__, TrackResultsStrategy.__init__, App.__init__ and a
\* store of n items, of which item p has been rated least; it has no score
\* and no rating count when unrated.
Fresh(n, p, unrated, kind, isTop) ==
  [ ids |-> 1..n,
    score |-> [i \in 1..n |-> IF i = p /\ unrated THEN NULL ELSE InitScore(i)],
    rating_count |-> [i \in 1..n |-> IF i = p THEN (IF unrated THEN NULL ELSE 1)
                                     ELSE 3],
    recent |-> {}, loser_counts |-> [i \in 1..n |-> 0],
    strategy |-> kind, top |-> isTop, span |-> << 0, 0 >>, track |-> NONE,
    win_counts |-> [i \in 1..n |-> 0], loss_counts |-> [i \in 1..n |-> 0],
    win_streak |-> 0, loss_streak |-> 0, winners |-> {}, losers |-> {},
    rounds |-> {}, fsize |-> RoundFilterSize, fhashes |-> RoundFilterHashes,
    pool |-> IF kind = "PoolStrategy" THEN 1..n ELSE {},
    app_wins |-> 0, app_winner |-> NONE ]

\* App.__init__ with a strategy of class kind: Bisect.__init__ ends with
\* reset_track, which may raise.
Constructed(kinds) ==
  \E n \in 0..MaxItems, p \in 1..MaxItems, unrated \in BOOLEAN,
     kind \in kinds, isTop \in BOOLEAN :
    /\ p <= Max(n, 1)
    /\ kind # "Bisect" => n <= MaxPool /\ p = 1 /\ ~isTop
    /\ \E r \in IF kind = "Bisect"
                  THEN reset_track(Fresh(n, p, unrated, kind, isTop))
                  ELSE {[s |-> Fresh(n, p, unrated, kind, isTop), raised |-> FALSE]} :
         /\ ids = r.s.ids /\ score = r.s.score
         /\ recent = r.s.recent /\ loser_counts = r.s.loser_counts
         /\ rating_count = r.s.rating_count /\ strategy = r.s.strategy
         /\ top = r.s.top /\ span = r.s.span /\ track = r.s.track
         /\ win_counts = r.s.win_counts /\ loss_counts = r.s.loss_counts
         /\ win_streak = r.s.win_streak /\ loss_streak = r.s.loss_streak
         /\ winners = r.s.winners /\ losers = r.s.losers
         /\ rounds = r.s.rounds /\ fsize = r.s.fsize /\ fhashes = r.s.fhashes
         /\ pool = r.s.pool /\ app_wins = r.s.app_wins
         /\ app_winner = r.s.app_winner
         /\ status = IF r.raised THEN "crashed" ELSE "constructed"
         /\ err = IF r.raised THEN "AttributeError" ELSE "none"
         /\ errAt = IF r.raised THEN "__init__" ELSE ""
         /\ shown = << >>
         /\ hist = Hist0(r.s.span)

\* ------------------------------------------------------------------ driver
\* The state after next_pair ended with outcome o, the history being h.
Asked(o, h) ==
  /\ Becomes(o.s)
  /\ status' = IF o.raised # "none" THEN "crashed"
               ELSE IF o.res = << >> THEN "ended" ELSE "shown"
  /\ shown' = o.res
  /\ err' = o.raised
  /\ errAt' = IF o.raised # "none" THEN "next_pair" ELSE ""
  /\ hist' = HistAsked(h, o, shown)

\* The state after update_ratings raised in state r.s.
Raised(r, h) ==
  /\ Becomes(r.s)
  /\ status' = "crashed" /\ err' = r.raised /\ errAt' = "update_ratings"
  /\ shown' = shown /\ hist' = h

\* QuestionSequence.new_question: a pair from App.get_elimination_pair is
\* shown; no pair, or ValueError, ends the session; any other exception is
\* raised again.
new_question(s, h) == \E o \in strategy_next_pair(s) : Asked(o, h)

\* run_app: the first question, before the main loop.
Start ==
  /\ status = "constructed"
  /\ new_question(St, [hist EXCEPT !.lastKey = "", !.calls = << >>])

\* QuestionSequence.unhandled_input for a key that maps to a response:
\* update_ratings on the pair shown, then the next question.
Answer(key, user_response) ==
  /\ status = "shown"
  /\ hist.nRatings < MaxRatings
  /\ LET r == App_update_ratings(St, shown[1], shown[2], user_response)
         h == [HistRated(hist, St, r, user_response) EXCEPT !.lastKey = key]
     IN  IF r.raised # "none" THEN Raised(r, h) ELSE new_question(r.s, h)

KeyA == Answer("a", WIN)
KeyB == Answer("b", LOSE)
KeyD == Answer("d", DRAW)

\* QuestionSequence.unhandled_input for 'n': the next question, no rating.
KeyN ==
  /\ status = "shown"
  /\ new_question(St, [hist EXCEPT !.lastKey = "n", !.calls = << >>])

InitApp == Constructed({"Bisect"})
NextApp == Start \/ KeyA \/ KeyB \/ KeyD \/ KeyN
SpecApp == InitApp /\ [][NextApp]_vars

\* ---------------------------------------------------- the strategy's caller
\* strategy.next_pair() called by a driver that asks for one pair after
\* construction and one after each rating.
NextPair ==
  /\ status \in {"constructed", "rated"}
  /\ \E o \in strategy_next_pair(St) :
       Asked(o, [hist EXCEPT !.lastKey = "", !.calls = << >>])

\* A verdict on the pair shown, given to a driver that keeps the contract:
\* new_score, the scores persisted, then one register_rating.
Verdict(user_response) ==
  /\ status = "shown" /\ Len(shown) = 2
  /\ hist.nRatings < MaxRatings
  /\ strategy # "Bisect" => hist.nRatings < MaxPoolRatings
  /\ LET r == Contract_update_ratings(St, shown[1], shown[2], user_response)
         h == [HistRated(hist, St, r, user_response) EXCEPT !.lastKey = ""]
     IN  IF r.raised # "none" THEN Raised(r, h)
         ELSE /\ Becomes(r.s)
              /\ status' = "rated" /\ shown' = shown
              /\ err' = "none" /\ errAt' = "" /\ hist' = h

VerdictWin == Verdict(WIN)
VerdictLose == Verdict(LOSE)
VerdictDraw == Verdict(DRAW)

Init == Constructed({"Bisect", "PoolStrategy"})
Next == NextPair \/ VerdictWin \/ VerdictLose \/ VerdictDraw
Spec == Init /\ [][Next]_vars

\* ------------------------------------------------- App.winner on its own
\* An assignment `app.winner = t` of an item of the store, whatever was
\* assigned before.
SetWinner ==
  /\ status = "constructed"
  /\ \E t \in ids :
       /\ Becomes(App_set_winner(St, t))
       /\ hist' = [hist EXCEPT !.assigned = t, !.preWins = app_wins,
                               !.preWinner = app_winner]
  /\ UNCHANGED << status, shown, err, errAt >>

InitWinner == Constructed({"Bisect"})
NextWinner == SetWinner
SpecWinner == InitWinner /\ [][NextWinner]_vars

\* ------------------------------------------- TopRated and SweepLosing
\* The window of not_rated_in_last passes: no item is recently rated.
TimePasses ==
  /\ status = "rated" /\ recent # {}
  /\ Becomes([St EXCEPT !.recent = {}])
  /\ UNCHANGED << status, shown, err, errAt, hist >>

InitTracks == Constructed({"TopRated", "SweepLosing"})
NextTracks == NextPair \/ VerdictWin \/ VerdictLose \/ VerdictDraw \/ TimePasses
SpecTracks == InitTracks /\ [][NextTracks]_vars

\* --------------------------------------------- PoolStrategy under the app
\* App with `self.strategy = sgy.PoolStrategy(self, query)` over a query of
\* PoolItems scored items.
InitPool ==
  LET s == Fresh(PoolItems, 1, FALSE, "PoolStrategy", FALSE)
  IN  /\ ids = s.ids /\ score = s.score /\ rating_count = s.rating_count
      /\ recent = s.recent /\ loser_counts = s.loser_counts
      /\ strategy = s.strategy /\ top = s.top /\ span = s.span
      /\ track = s.track /\ win_counts = s.win_counts
      /\ loss_counts = s.loss_counts /\ win_streak = s.win_streak
      /\ loss_streak = s.loss_streak /\ winners = s.winners
      /\ losers = s.losers /\ rounds = s.rounds /\ fsize = s.fsize
      /\ fhashes = s.fhashes /\ pool = s.pool /\ app_wins = s.app_wins
      /\ app_winner = s.app_winner /\ status = "constructed"
      /\ shown = << >> /\ err = "none" /\ errAt = ""
      /\ hist = Hist0(s.span)

\* QuestionSequence.unhandled_input for 'a' or 'b' on a PoolStrategy:
\* App.update_ratings on the pair shown, then the next question.
PoolAnswer(key, user_response) ==
  /\ status = "shown"
  /\ hist.nRatings < MaxPoolVerdicts
  /\ LET r == App_update_ratings(St, shown[1], shown[2], user_response)
         h == [HistRated(hist, St, r, user_response) EXCEPT !.lastKey = key]
     IN  IF r.raised # "none" THEN Raised(r, h) ELSE new_question(r.s, h)

PoolKeyA == PoolAnswer("a", WIN)
PoolKeyB == PoolAnswer("b", LOSE)

NextPool == Start \/ PoolKeyA \/ PoolKeyB
SpecPool == InitPool /\ [][NextPool]_vars

\* ------------------------------------------------------ SweepLosing alone
\* Round i of a SweepLosing session over a store of n items, from session p
\* (the state of the program, the history and the pair shown): next_pair
\* returns (n, i), item n wins, and the window of not_rated_in_last passes.
SweepRound(p, n, i) ==
  UNION {
    {[s |-> [r.s EXCEPT !.recent = {}],
      h |-> HistRated(HistAsked(p.h, o, p.shown), o.s, r, WIN),
      shown |-> o.res] :
       r \in {Contract_update_ratings(o.s, n, i, WIN)}} :
    o \in {x \in SweepLosing_next_pair(p.s) : x.res = << n, i >>}}

\* The session over n scored items after rounds 1 to m.
RECURSIVE SweepAfter(_, _)
SweepAfter(n, m) ==
  IF m = 0
    THEN {[s |-> Fresh(n, 1, FALSE, "SweepLosing", FALSE),
           h |-> Hist0(<< 0, 0 >>), shown |-> << >>]}
    ELSE UNION {SweepRound(p, n, m) : p \in SweepAfter(n, m - 1)}

\* The sessions a SweepLosing starts from: a new one over a small store, and
\* one over the large store in which 11 items have lost once to item
\* SweepItems, so that len(pool) is above 10.
SweepSessions ==
  {<< n, 0 >> : n \in 0..SweepSmall} \cup {<< SweepItems, 11 >>}

\* The verdicts a session over n items is given.
SweepBudget(n) == IF n = SweepItems THEN 11 + MaxSweepLate ELSE MaxSweepRatings

InitSweep ==
  \E c \in SweepSessions :
    \E p \in SweepAfter(c[1], c[2]) :
      /\ ids = p.s.ids /\ score = p.s.score
      /\ rating_count = p.s.rating_count /\ recent = p.s.recent
      /\ loser_counts = p.s.loser_counts /\ strategy = p.s.strategy
      /\ top = p.s.top /\ span = p.s.span /\ track = p.s.track
      /\ win_counts = p.s.win_counts /\ loss_counts = p.s.loss_counts
      /\ win_streak = p.s.win_streak /\ loss_streak = p.s.loss_streak
      /\ winners = p.s.winners /\ losers = p.s.losers /\ rounds = p.s.rounds
      /\ fsize = p.s.fsize /\ fhashes = p.s.fhashes /\ pool = p.s.pool
      /\ app_wins = p.s.app_wins /\ app_winner = p.s.app_winner
      /\ status = IF c[2] = 0 THEN "constructed" ELSE "rated"
      /\ shown = p.shown /\ err = "none" /\ errAt = ""
      /\ hist = p.h

\* A verdict on the pair a SweepLosing returned: new_score, the scores
\* persisted, then one register_rating.
SweepVerdict(user_response) ==
  /\ status = "shown" /\ Len(shown) = 2
  /\ hist.nRatings < SweepBudget(Cardinality(ids))
  /\ LET r == Contract_update_ratings(St, shown[1], shown[2], user_response)
         h == [HistRated(hist, St, r, user_response) EXCEPT !.lastKey = ""]
     IN  IF r.raised # "none" THEN Raised(r, h)
         ELSE /\ Becomes(r.s)
              /\ status' = "rated" /\ shown' = shown
              /\ err' = "none" /\ errAt' = "" /\ hist' = h

SweepWin == SweepVerdict(WIN)
SweepLose == SweepVerdict(LOSE)
SweepDraw == SweepVerdict(DRAW)

NextSweep == NextPair \/ SweepWin \/ SweepLose \/ SweepDraw \/ TimePasses
SpecSweep == InitSweep /\ [][NextSweep]_vars

\* ------------------------------------------------------- the filter alone
\* A RoundFilter on its own, over a bit array small enough for collisions:
\* the sizes a BloomFilter(size, hash_count) is built with.
FilterSizes == {<< 100, 3 >>, << 7, 2 >>}

InitFilter ==
  \E cfg \in FilterSizes :
    /\ ids = 1..FilterIds
    /\ score = [i \in 1..FilterIds |-> InitScore(i)]
    /\ rating_count = [i \in 1..FilterIds |-> NULL]
    /\ recent = {} /\ loser_counts = [i \in 1..FilterIds |-> 0]
    /\ strategy = "none" /\ top = FALSE /\ span = << 0, 0 >> /\ track = NONE
    /\ win_counts = [i \in 1..FilterIds |-> 0]
    /\ loss_counts = [i \in 1..FilterIds |-> 0]
    /\ win_streak = 0 /\ loss_streak = 0 /\ winners = {} /\ losers = {}
    /\ rounds = {} /\ fsize = cfg[1] /\ fhashes = cfg[2] /\ pool = {}
    /\ app_wins = 0 /\ app_winner = NONE /\ status = "filter"
    /\ shown = << >> /\ err = "none" /\ errAt = ""
    /\ hist = Hist0(<< 0, 0 >>)

\* RoundFilter.add((ta, tb)) for two items of different ids.
FilterAdd ==
  /\ status = "filter"
  /\ Cardinality(hist.added) < MaxAdds
  /\ \E ta \in ids, tb \in ids :
       /\ ta # tb
       /\ rounds' = RoundFilter_add(rounds, ta, tb, fsize, fhashes)
       /\ hist' = [hist EXCEPT !.added = hist.added \cup {<< ta, tb >>}]
  /\ UNCHANGED << ids, score, rating_count, recent, strategy, top, span,
                  track, win_counts, loss_counts, win_streak, loss_streak,
                  winners, losers, loser_counts, fsize, fhashes, pool,
                  app_wins, app_winner, status, shown, err, errAt >>

NextFilter == FilterAdd
SpecFilter == InitFilter /\ [][NextFilter]_vars

\* ------------------------------------------------------- the scores alone
\* new_score on its own: the scores of two items, unset (NULL), zero, equal,
\* 0.01 and 0.40 apart, and far enough apart for 10 ** x to overflow; the
\* sensitivities k a caller of elo.new_score passes.
ScoreInputs == {NULL, 0, 1, 99960, 100000, 100001, 150000}
Sensitivities == {1, 2, 4}

InitScores ==
  \E a \in ScoreInputs, b \in ScoreInputs :
    /\ ids = 1..2 /\ score = << a, b >>
    /\ rating_count = << NULL, NULL >>
    /\ recent = {} /\ loser_counts = << 0, 0 >>
    /\ strategy = "none" /\ top = FALSE /\ span = << 0, 0 >> /\ track = NONE
    /\ win_counts = << 0, 0 >> /\ loss_counts = << 0, 0 >>
    /\ win_streak = 0 /\ loss_streak = 0 /\ winners = {} /\ losers = {}
    /\ rounds = {} /\ fsize = RoundFilterSize /\ fhashes = RoundFilterHashes
    /\ pool = {} /\ app_wins = 0 /\ app_winner = NONE /\ status = "score"
    /\ shown = << >> /\ err = "none" /\ errAt = ""
    /\ hist = Hist0(<< 0, 0 >>)

\* The state after new_score fn, called with sensitivity k and the response
\* on the two scores, ended with r: the scores it returned are the next inputs.
Called(fn, k, response, r) ==
  /\ score' = IF r.raised = "none" THEN r.new ELSE score
  /\ hist' = [hist EXCEPT !.fn = fn, !.k = k, !.outcome = response,
                          !.old = score, !.new = r.new, !.raised = r.raised,
                          !.nRatings = hist.nRatings + 1]
  /\ UNCHANGED << ids, rating_count, recent, strategy, top, span, track,
                  win_counts, loss_counts, win_streak, loss_streak, winners,
                  losers, loser_counts, rounds, fsize, fhashes, pool, app_wins,
                  app_winner, status, shown, err, errAt >>

\* elo.new_score(a, b, float(response), k).
EloNewScore ==
  /\ status = "score" /\ hist.nRatings < MaxUpdates
  /\ \E k \in Sensitivities, response \in UserResponse :
       Called("elo", k, response,
              elo_new_score(score[1], score[2], ResponseFloat(response), k))

\* Strategy.new_score(song1, song2, response).
StrategyNewScore ==
  /\ status = "score" /\ hist.nRatings < MaxUpdates
  /\ \E response \in UserResponse :
       Called("Strategy", 2, response,
              Strategy_new_score(score[1], score[2], response))

\* Bisect.new_score(song1, song2, response).
BisectNewScore ==
  /\ status = "score" /\ hist.nRatings < MaxUpdates
  /\ \E response \in UserResponse :
       Called("Bisect", 1, response,
              Bisect_new_score(score[1], score[2], response))

NextScore == EloNewScore \/ StrategyNewScore \/ BisectNewScore
SpecScore == InitScores /\ [][NextScore]_vars

\* ================================================================= claims
PairSet(pr) == {pr[1], pr[2]}

\* C1 (as claimed): in a session driven by App with Bisect, two consecutive
\* pairs returned by next_pair are never the same unordered pair of ids.
C1_NoImmediateRepeat ==
  (status = "shown" /\ hist.prevShown # << >>)
    => PairSet(shown) # PairSet(hist.prevShown)

\* The number of ranked items that are eligible now.
EligibleCount == Cardinality(Bisect_ranking_query(St))

\* C2 (as claimed): in every state of a constructed Bisect, the span
\* satisfies 0 <= lo < hi <= number of currently eligible ranked items.
C2_SpanInvariant ==
  (strategy = "Bisect" /\ status # "crashed")
    => (0 <= span[1] /\ span[1] < span[2] /\ span[2] <= EligibleCount)

\* The least c with 2^c >= n: ceil(log2(n)) for n >= 1.
RECURSIVE CeilLog2(_)
CeilLog2(n) == IF n <= 1 THEN 0 ELSE 1 + CeilLog2((n + 1) \div 2)

\* C3 (as claimed): with only non-draw verdicts, the span width strictly
\* decreases from each round to the next until it reaches 1 or 2, and that
\* takes at most ceil(log2(n)) rounds for a population of n.
C3_WidthDecreasesEveryRound ==
  (strategy = "Bisect" /\ hist.nReg >= 1 /\ ~hist.draws /\ status # "crashed")
    => /\ ~hist.reachedPrev => hist.roundWidth < hist.prevRoundWidth
       /\ hist.nReg >= CeilLog2(hist.population) => hist.reached

\* C3 (amended): a non-draw register_rating on a span of width 2 or more
\* leaves a strictly narrower span, and after ceil(log2(n)) non-draw
\* register_rating calls since the reset_track that set the span to n items
\* the width is at most 2; a reset_track in between restores the full width.
C3_WidthDecreasesBetweenResets ==
  (strategy = "Bisect" /\ hist.nReg >= 1 /\ ~hist.lastCall[3])
    => /\ Width(hist.preSpan) >= 2 => hist.roundWidth < Width(hist.preSpan)
       /\ hist.roundSince >= CeilLog2(hist.roundN) => hist.roundWidth <= 2

\* C3 witness: a non-draw round narrowed a span wider than 2 that an earlier
\* round had already narrowed.
C3_Witness ==
  /\ strategy = "Bisect" /\ hist.nReg >= 2 /\ ~hist.lastCall[3]
  /\ hist.roundSince >= 2 /\ Width(hist.preSpan) > 2
  /\ hist.roundWidth < Width(hist.preSpan)

\* C4: Bisect.register_rating sets the span to (lo, mid) when the pivot won,
\* to (mid, hi) when the pivot lost, and leaves it unchanged on a draw,
\* where mid = (lo + hi) div 2.
C4_RegisterRatingSpan ==
  (strategy = "Bisect" /\ hist.nReg >= 1)
    => LET lo == hist.preSpan[1]
           hi == hist.preSpan[2]
           mid == (lo + hi) \div 2
           c == hist.lastCall
       IN  hist.postSpan = IF c[3] THEN << lo, hi >>
                           ELSE IF c[1] = hist.prePivot THEN << lo, mid >>
                           ELSE << mid, hi >>

\* C4 witness: one session in which the pivot won a round, lost a round and
\* drew a round, the last call being the draw.
C4_Witness ==
  /\ strategy = "Bisect" /\ hist.cases = {"won", "lost", "draw"}
  /\ hist.lastCall[3] /\ Width(hist.postSpan) >= 2

\* The items that may stand at rank r of the score-descending ranking of
\* the eligible items, item x left out.
AtRank(r, x) == AtOffsetDesc(Bisect_ranking_query(St) \ {x}, score, r)

\* C5 (as claimed): a pair returned by the terminal step (hi - lo = 2) is
\* the items at rank lo and rank hi - 1 of the eligible ranking (read with
\* or without the pivot of the call in the ranking).
C5_TerminalPairRanks ==
  (strategy = "Bisect" /\ status = "shown" /\ hist.branch = "terminal")
    => \E z \in {NONE, hist.excluded} :
         \E x \in AtRank(span[1], z), y \in AtRank(span[2] - 1, z) :
           PairSet(shown) = {x, y}

\* C6 (as claimed): no next_pair call of any strategy returns an item whose
\* session loss count is at least its session win count plus 2.
C6_NoDisqualifiedAnyStrategy ==
  status = "shown" => PairSet(shown) \cap Disqualified(St) = {}

\* C6 (amended): no Bisect.next_pair call returns an item whose session loss
\* count is at least its session win count plus 2.
C6_NoDisqualifiedBisect ==
  (strategy = "Bisect" /\ status = "shown")
    => PairSet(shown) \cap Disqualified(St) = {}

\* C6 witness: Bisect returned a pair while a scored item was disqualified.
C6_Witness ==
  /\ strategy = "Bisect" /\ status = "shown" /\ hist.nReg >= 2
  /\ \E i \in Disqualified(St) : score[i] # NULL

\* C7 (as claimed): every Bisect.next_pair call ends after a bounded number
\* of retries, with a pair or the no-pair signal.
C7_NextPairTerminates ==
  strategy = "Bisect" => err \notin {"RecursionError", "NonTermination"}

\* C8 (as claimed): for every verdict (left wins, right wins, draw) the
\* driver calls register_rating exactly once, after the scores are
\* persisted and before the next next_pair.
C8_RegisterOncePerVerdict ==
  (hist.lastKey \in {"a", "b", "d"} /\ errAt # "update_ratings")
    => Len(hist.calls) = 1

\* C9 (as claimed): when no valid pair can be produced, next_pair returns
\* the no-pair signal; no exception escapes next_pair or new_question.
C9_NoExceptionEscapes ==
  ~(status = "crashed" /\ errAt = "next_pair")

\* C10: once RoundFilter.add(pair) was called, possibly_contains(pair) is
\* true in every later state, whatever else was added.
C10_NoFalseNegatives ==
  \A pr \in hist.added :
    RoundFilter_possibly_contains(rounds, pr[1], pr[2], fsize, fhashes)

\* C10 witness: a pair added first, with its higher id first, is still
\* reported after other pairs were added to a small filter.
C10_Witness ==
  /\ status = "filter" /\ Cardinality(hist.added) >= 3
  /\ \E pr \in hist.added :
       /\ pr[1] > pr[2]
       /\ RoundFilter_possibly_contains(rounds, pr[1], pr[2], fsize, fhashes)
  /\ \E a \in 1..FilterIds, b \in 1..FilterIds :
       /\ a # b /\ << a, b >> \notin hist.added /\ << b, a >> \notin hist.added
       /\ RoundFilter_possibly_contains(rounds, a, b, fsize, fhashes)

\* C11: in every filter state, possibly_contains((a, b)) equals
\* possibly_contains((b, a)) for all items a, b, and every pair given to add
\* is reported when asked for in the opposite order.
C11_FilterSymmetry ==
  status = "filter" =>
    /\ \A a \in ids, b \in ids :
         RoundFilter_possibly_contains(rounds, a, b, fsize, fhashes)
           = RoundFilter_possibly_contains(rounds, b, a, fsize, fhashes)
    /\ \A pr \in hist.added :
         RoundFilter_possibly_contains(rounds, pr[2], pr[1], fsize, fhashes)

\* C11 witness: a filter of 100 bits and 3 hashes to which only (1, 2) was
\* added reports (2, 1), and does not report a pair that was never added.
C11_Witness ==
  /\ status = "filter" /\ fsize = 100 /\ fhashes = 3
  /\ hist.added = {<< 1, 2 >>}
  /\ RoundFilter_possibly_contains(rounds, 2, 1, fsize, fhashes)
  /\ ~RoundFilter_possibly_contains(rounds, 3, 1, fsize, fhashes)

\* The old and the returned score of the winner and of the loser of the
\* last new_score call, for a response that is not a draw.
WinnerOld == IF hist.outcome = WIN THEN hist.old[1] ELSE hist.old[2]
LoserOld == IF hist.outcome = WIN THEN hist.old[2] ELSE hist.old[1]
WinnerNew == IF hist.outcome = WIN THEN hist.new[1] ELSE hist.new[2]
LoserNew == IF hist.outcome = WIN THEN hist.new[2] ELSE hist.new[1]

\* Bisect.new_score returned, on a non-draw response and two set scores.
BisectDecided ==
  /\ hist.fn = "Bisect" /\ hist.outcome \in {WIN, LOSE}
  /\ NULL \notin {hist.old[1], hist.old[2]} /\ hist.raised = "none"

\* C12 (as claimed): on a non-draw verdict with both scores present, the
\* winner's score returned by Bisect.new_score is
\* max(winner_old, loser_old + 0.01), so at least loser_old + 0.01.
C12_WinnerFloor ==
  BisectDecided => /\ WinnerNew = Max(WinnerOld, LoserOld + 1)
                   /\ WinnerNew >= LoserOld + 1

\* C13 (as claimed): on a non-draw verdict with both scores present, the
\* winner's score returned by Bisect.new_score is not below the loser's.
C13_WinnerNotBelowLoser == BisectDecided => WinnerNew >= LoserNew

\* C14 (as claimed): for all finite scores a, b, zero included, and k > 0,
\* elo.new_score with outcome 1.0 returns two scores that sum to a + b.
C14_ZeroSum ==
  (hist.fn = "elo" /\ hist.outcome = WIN
     /\ NULL \notin {hist.old[1], hist.old[2]})
    => /\ hist.raised = "none"
       /\ hist.new[1] + hist.new[2] = hist.old[1] + hist.old[2]

\* elo.new_score was called with outcome 1.0 on two equal set scores.
EqualScoresWin ==
  /\ hist.fn = "elo" /\ hist.outcome = WIN
  /\ hist.old[1] = hist.old[2] /\ hist.old[1] # NULL

C16_AbsentScoreDefault ==
  (hist.fn = "elo" /\ NULL \in {hist.old[1], hist.old[2]})
    => LET d == hist.new[1] - 100000
           size == IF d >= 0 THEN d ELSE -d
       IN  /\ hist.raised = "none"
           /\ hist.new[1] # NULL /\ hist.new[2] = 100000 - d
           /\ hist.outcome = WIN => d > 0
           /\ hist.outcome = LOSE => d < 0
           /\ hist.outcome = DRAW => d = 0
           /\ hist.outcome # DRAW => size < 50 * hist.k

\* C17 (as claimed): Strategy.new_score and Bisect.new_score return a pair
\* of numbers and raise no error when one or both scores are unset, for
\* each of win, lose and draw.
C17_UnsetScoreNoError ==
  (hist.fn \in {"Strategy", "Bisect"} /\ NULL \in {hist.old[1], hist.old[2]})
    => /\ hist.raised = "none"
       /\ hist.new[1] # NULL /\ hist.new[2] # NULL

\* C18 (as claimed): every result of next_pair of Bisect, PoolStrategy,
\* TopRated and SweepLosing is the no-pair signal or exactly two non-null
\* items with different ids.
C18_PairOrNoPair ==
  (status \in {"shown", "ended"} /\ hist.branch # "")
    => \/ shown = << >> /\ hist.branch # "sweep"
       \/ /\ Len(shown) = 2 /\ shown[1] # NONE /\ shown[2] # NONE
          /\ shown[1] # shown[2]

\* C19: in a KeepWinner-based strategy no step (next_pair with any
\* reset_track it runs, register_rating) decreases the win count or the
\* loss count of any item.
C19_CountsNeverDecrease ==
  [][\A i \in ids : /\ win_counts'[i] >= win_counts[i]
                    /\ loss_counts'[i] >= loss_counts[i]]_vars

\* C19 witness: next_pair of a Bisect ran reset_track while an item had two
\* losses and another item had a win, and the counts are still there.
C19_Witness ==
  /\ strategy = "Bisect" /\ status = "shown" /\ hist.reset
  /\ \E i \in ids, j \in ids : loss_counts[i] >= 2 /\ win_counts[j] >= 1

\* C20 (as claimed): after each KeepWinner.register_rating, win_streak is
\* the previous win_streak plus 1 if the winner is the winner of the
\* immediately preceding rating and 1 otherwise; loss_streak likewise with
\* the immediately preceding loser.
C20_StreakFollowsPreviousRating ==
  (strategy \in {"Bisect", "PoolStrategy"} /\ hist.nReg >= 1)
    => LET before == IF hist.prevCall = << >> THEN << NONE, NONE >>
                     ELSE hist.prevCall
       IN  /\ hist.postStreaks[1] = IF before[1] = hist.lastCall[1]
                                      THEN hist.preStreaks[1] + 1 ELSE 1
           /\ hist.postStreaks[2] = IF before[2] = hist.lastCall[2]
                                      THEN hist.preStreaks[2] + 1 ELSE 1

\* C21 (as claimed): KeepWinner exposes the prior winner only while the win
\* streak is below a cap that lies between 5 and 10: whenever the winner
\* property is not None the win streak is below the cap, and a prior winner
\* with a win streak below 5 is exposed.
C21_WinnerExposedBelowCap ==
  (strategy \in {"Bisect", "PoolStrategy"} /\ status # "crashed")
    => \E cap \in 5..10 :
         /\ KeepWinner_winner(St) # NONE => win_streak < cap
         /\ (app_winner # NONE /\ win_streak < 5)
              => KeepWinner_winner(St) = app_winner

\* C22 (as claimed): PoolStrategy.next_pair never returns, on either side of
\* the pair, an item whose session win count or session loss count is 3 or
\* more, and the pool set is the one the strategy was built with (the ids
\* of the store).
C22_NoSaturatedItem ==
  (strategy = "PoolStrategy" /\ status = "shown")
    => /\ \A i \in PairSet(shown) : win_counts[i] < 3 /\ loss_counts[i] < 3
       /\ pool = ids

\* C23: TopRated.next_pair never returns an item whose id was the winner of
\* a register_rating call earlier in the session.
C23_TopRatedSkipsWinners ==
  (strategy = "TopRated" /\ status = "shown")
    => PairSet(shown) \cap hist.everWon = {}

\* C23 witness: TopRated returned a pair while an earlier winner had a score
\* in range and was outside the window of not_rated_in_last.
C23_Witness ==
  /\ strategy = "TopRated" /\ status = "shown" /\ hist.branch = "top"
  /\ \E w \in hist.everWon : w \in tracks(St, TRUE)
  /\ PairSet(shown) \cap hist.everWon = {}

\* C24 (as claimed): the SweepLosing.register_rating call that records the
\* third loss of an item that never won removes the item from the winners
\* set and from the losers set.
C24_ThirdLossEvicts ==
  (strategy = "SweepLosing" /\ status = "rated" /\ hist.nReg >= 1
     /\ TimesLost(hist, hist.lastCall[2]) = 3
     /\ hist.lastCall[2] \notin hist.everWon)
    => hist.lastCall[2] \notin winners \cup losers

\* C25 (as claimed): SweepLosing.next_pair uses pool mode when the pool
\* (losers minus winners) has more than 10 ids and random mode when it has
\* fewer than 2, and for a pool size from 2 to 10 it uses the mode of the
\* previous next_pair call.
C25_ModeHysteresis ==
  (strategy = "SweepLosing" /\ status \in {"shown", "ended"}
     /\ hist.branch = "sweep")
    => /\ hist.poolSize > 10 => hist.use_pool
       /\ hist.poolSize < 2 => ~hist.use_pool
       /\ (hist.poolSize \in 2..10 /\ hist.nextPairs >= 2)
            => hist.use_pool = hist.prevUsePool

\* Bisect.next_pair is about to be called on a span with hi - lo = 2, and
\* the pair it reads there is reported by the Round Filter as shown.
TerminalPairShown ==
  /\ strategy = "Bisect" /\ status \in {"constructed", "rated"}
  /\ span[1] = span[2] - 2
  /\ \A a \in get_at_index(St, span[1]), b \in get_at_index(St, span[2]) :
       /\ a # NONE /\ b # NONE
       /\ RoundFilter_possibly_contains(rounds, a, b, fsize, fhashes)

\* C26: when Bisect.next_pair is called with hi - lo = 2 and the Round
\* Filter reports the terminal pair as already shown, the call returns the
\* no-pair signal (none, none) and not the pair.
C26_TerminalShownGivesNoPair ==
  [][TerminalPairShown => (status' = "ended" /\ shown' = << >> /\ err' = "none")]_vars

\* C26 witness: the terminal step of Bisect.next_pair returned the no-pair
\* signal, in a session in which pairs had been registered.
C26_Witness ==
  /\ strategy = "Bisect" /\ status = "ended" /\ hist.branch = "terminal"
  /\ err = "none" /\ shown = << >> /\ hist.nReg >= 1

\* The pair of the pivot with item t is reported by the Round Filter.
ShownWithPivot(t) ==
  RoundFilter_possibly_contains(rounds, track, t, fsize, fhashes)

\* C27: the challenger returned by the non-terminal step of Bisect.next_pair
\* stands at the highest rank index <= midpoint whose pair with the pivot
\* the Round Filter does not report, and no pair returned by
\* Bisect.next_pair is reported by the Round Filter when it is returned.
C27_ChallengerBelowMidpoint ==
  (strategy = "Bisect" /\ status = "shown")
    => /\ ~RoundFilter_possibly_contains(rounds, shown[1], shown[2],
                                         fsize, fhashes)
       /\ hist.branch = "bisect"
            => /\ shown[1] = track
               /\ \E idx \in 0..midpoint(span) :
                    /\ shown[2] \in AtRank(idx, track)
                    /\ \A j \in (idx + 1)..midpoint(span) :
                         \E t \in AtRank(j, track) : ShownWithPivot(t)

\* C27 witness: the non-terminal step walked down: the pair of the pivot
\* with the item at the midpoint was reported, and a challenger of a lower
\* index was returned.
C27_Witness ==
  /\ strategy = "Bisect" /\ status = "shown" /\ hist.branch = "bisect"
  /\ \A t \in AtRank(midpoint(span), track) : ShownWithPivot(t) /\ t # shown[2]
  /\ AtRank(midpoint(span), track) # {}
  /\ \E idx \in 0..(midpoint(span) - 1) : shown[2] \in AtRank(idx, track)

\* Bisect.next_pair is about to be called on a span with hi - lo > 2.
NonTerminalCall ==
  /\ strategy = "Bisect" /\ status \in {"constructed", "rated"}
  /\ span[2] - span[1] > 2

\* C28: in the non-terminal step of Bisect.next_pair, a pivot with 2 or more
\* session losses makes reset_track run before the challenger is selected
\* (the span becomes (0, number of eligible ranked items) and a pivot is
\* chosen from the eligible items); otherwise the span and the identity of
\* the pivot are unchanged.
C28_ResetOnTwoLosses ==
  [][NonTerminalCall
       => IF loss_counts[track] >= 2
            THEN /\ hist'.reset
                 /\ span' = << 0, EligibleCount >>
                 /\ track' \in Bisect_source_query(St) \cup {NONE}
                 /\ status' = "shown" => shown'[1] = track'
            ELSE /\ ~hist'.reset
                 /\ span' = span /\ track' = track]_vars

\* C28 witness: next_pair was called on a span wider than 2 with a pivot of
\* two session losses, ran reset_track and returned a pair of the new span.
C28_Witness ==
  /\ strategy = "Bisect" /\ status = "shown" /\ hist.branch = "bisect"
  /\ hist.reset /\ hist.nReg >= 2 /\ Width(hist.postSpan) > 2
  /\ loss_counts[hist.prePivot] >= 2
  /\ span = << 0, EligibleCount >> /\ Width(span) > Width(hist.postSpan)

\* reset_track was the last operation to set the span and the pivot: at
\* construction, or in a next_pair call that went on to the final branch.
AfterResetTrack ==
  /\ strategy = "Bisect"
  /\ \/ status = "constructed"
     \/ status = "shown" /\ hist.reset /\ hist.branch = "bisect"

\* C29 (as claimed): reset_track sets the span to (0, number of eligible
\* ranked items) and chooses as pivot, in default mode, the eligible item
\* rated least recently (no eligible item was rated longer ago), and in top
\* mode the eligible item at the midpoint rank of the new span (where the
\* span is not empty).
C29_ResetTrackPivot ==
  AfterResetTrack
    => /\ span = << 0, EligibleCount >>
       /\ ~top => (track \in recent => Bisect_source_query(St) \subseteq recent)
       /\ (top /\ EligibleCount >= 1) => track \in AtRank(midpoint(span), NONE)

\* The bookkeeping of KeepWinner and the Round Filter.
Bookkeeping ==
  << win_counts, loss_counts, win_streak, loss_streak, winners, losers, rounds >>

\* C30: a Bisect.next_pair call, with any reset_track it runs, leaves the
\* win and loss counts, the two streaks, the winners and losers sets and
\* the Round Filter unchanged; they change only in a step that calls
\* register_rating.
C30_NextPairKeepsBookkeeping ==
  [][strategy = "Bisect"
       => /\ status \in {"constructed", "rated"} => Bookkeeping' = Bookkeeping
          /\ Bookkeeping' # Bookkeeping
               => (status = "shown" /\ hist'.nReg = hist.nReg + 1)]_vars

\* C30 witness: a Bisect.next_pair that ran reset_track returned a pair
\* while the filter, both sets, both streaks and the counts were in use.
C30_Witness ==
  /\ strategy = "Bisect" /\ status = "shown" /\ hist.reset /\ hist.nReg >= 2
  /\ rounds # {} /\ winners # {} /\ losers # {}
  /\ win_streak >= 1 /\ loss_streak >= 1
  /\ \E i \in ids, j \in ids : win_counts[i] >= 1 /\ loss_counts[j] >= 1

\* C31 (as claimed): PoolStrategy.next_pair reads the pool in score order
\* and returns (w, t), where w is the exposed winner or else the first
\* eligible item, and t is the first eligible item (after w, when w was
\* read from the pool) with another id whose pair with w the Round Filter
\* does not report; score order is best first or worst first.
C31_PoolInScoreOrder ==
  (strategy = "PoolStrategy" /\ status = "shown" /\ hist.branch = "pool")
    => \E desc \in BOOLEAN :
         LET Before(x, y) == IF desc THEN score[x] > score[y]
                                     ELSE score[x] < score[y]
             kept == KeepWinner_winner(St)
             E == Pool_unsaturated(St)
             w == shown[1]
             later == {x \in E \ {w} :
                         /\ ~RoundFilter_possibly_contains(rounds, w, x,
                                                          fsize, fhashes)
                         /\ kept = NONE => ~Before(x, w)}
         IN  /\ IF kept # NONE THEN w = kept
                ELSE w \in E /\ \A x \in E : ~Before(x, w)
             /\ shown[2] \in later
             /\ \A x \in later : ~Before(x, shown[2])

\* C32: a pair for which Bisect.register_rating has been called is never
\* returned again by a later Bisect.next_pair of the session, in either
\* order, whatever resets and span changes happened in between.
C32_RegisteredPairNotReturned ==
  (strategy = "Bisect" /\ status = "shown")
    => \A pr \in hist.added : PairSet(pr) # PairSet(shown)

\* C32 witness: next_pair returned a pair after a reset_track, with two
\* rounds registered, one of them with the pivot of the returned pair.
C32_Witness ==
  /\ strategy = "Bisect" /\ status = "shown" /\ hist.reset
  /\ Cardinality(hist.added) >= 2
  /\ \E pr \in hist.added : track \in PairSet(pr)

\* C33 (as claimed): whenever Bisect.next_pair has returned a pair, the span
\* has width hi - lo >= 2, and the register_rating that follows never leaves
\* an empty span (lo = hi).
C33_ReturnedPairHasWidthTwo ==
  /\ (strategy = "Bisect" /\ status = "shown") => Width(span) >= 2
  /\ (strategy = "Bisect" /\ status = "rated" /\ hist.calls # << >>)
       => span[1] # span[2]

\* C33 witness: register_rating acted on the pair returned for a span of
\* width 2 and left a span of width 1, after an earlier reset_track in the
\* session.
C33_Witness ==
  /\ strategy = "Bisect" /\ status = "rated" /\ hist.calls # << >>
  /\ Width(hist.preSpan) = 2 /\ Width(span) = 1 /\ hist.nReg >= 3

\* C34: every KeepWinner.register_rating(winner, loser, draw), draw or not,
\* adds exactly 1 to win_counts[winner.id] and to loss_counts[loser.id] and
\* leaves the win and loss counts of every other id as they were.
C34_RegisterRatingCountsOnce ==
  [][hist'.nReg = hist.nReg + 1
       => \A i \in ids :
            /\ win_counts'[i] = win_counts[i]
                                  + (IF i = hist'.lastCall[1] THEN 1 ELSE 0)
            /\ loss_counts'[i] = loss_counts[i]
                                   + (IF i = hist'.lastCall[2] THEN 1 ELSE 0)]_vars

\* C34 witness: a draw was registered for a winner that had won before and a
\* loser that had lost before, while a third item has counts of its own.
C34_Witness ==
  /\ status = "rated" /\ hist.calls # << >> /\ hist.lastCall[3]
  /\ win_counts[hist.lastCall[1]] >= 2 /\ loss_counts[hist.lastCall[2]] >= 2
  /\ \E i \in ids \ {hist.lastCall[1], hist.lastCall[2]} :
       win_counts[i] + loss_counts[i] >= 1

\* C35 (as claimed): a second Bisect.next_pair right after one that returned
\* a pair, with no register_rating and no change of the items in between
\* (the driver's skip key), returns the same pair and leaves the span and
\* the pivot as the first call left them.
C35_SkipRepeatsPair ==
  [][(strategy = "Bisect" /\ status = "shown" /\ hist'.lastKey = "n")
       => /\ status' = "shown" /\ shown' = shown
          /\ span' = span /\ track' = track]_vars

\* C36: under any sequence of assignments of items to App.winner, _wins
\* stays within 0..max_consecutive_wins, _winner is null exactly when _wins
\* is 0, and assigning the current winner again when _wins has reached the
\* maximum clears both the winner and the streak.
C36_WinnerStreakBounded ==
  /\ app_wins \in 0..max_consecutive_wins
  /\ app_winner = NONE <=> app_wins = 0
  /\ (/\ hist.assigned # NONE /\ hist.assigned = hist.preWinner
      /\ hist.preWins >= max_consecutive_wins)
       => (app_wins = 0 /\ app_winner = NONE)

\* C36 witness: the current winner was assigned again at a streak of 5 and
\* the winner and the streak are cleared.
C36_Witness ==
  /\ hist.assigned # NONE /\ hist.assigned = hist.preWinner
  /\ hist.preWins = max_consecutive_wins
  /\ app_wins = 0 /\ app_winner = NONE

====
